---- MODULE Spec2Model ----
(***************************************************************************)
(* The research pipeline of src/src/deep-research.ts (the variant that     *)
(* generates a research paper, lines 530-1213): one root invocation of     *)
(* researchTopic, the sub-topic invocations it submits to researchQueue    *)
(* (a PQueue with concurrency 1), the visited set discoveredTopics, the    *)
(* shared list researchInsights and the logger's task registry.            *)
(*                                                                         *)
(* One action is one turn of the event loop: the code that runs between    *)
(* two awaits of an invocation, together with everything the queue runs    *)
(* synchronously in that turn (PQueue calls the task function inside add() *)
(* when a slot is free, and inside the settling of the previous task       *)
(* otherwise).                                                             *)
(***************************************************************************)
EXTENDS Integers, Sequences, FiniteSets, TLC

VARIABLES
  discoveredTopics,  \* the visited set (line 807)
  researchInsights,  \* the shared Insight list (line 808)
  queue,             \* researchQueue: ids of the tasks waiting, in submission order
  pending,           \* researchQueue: ids of the tasks that run (PQueue's pending count)
  inv,               \* the invocations of researchTopic: inv[1] is the root, the others are
                     \* the queued tasks in submission order
  taskId,            \* Logger.taskId (line 698)
  currentTasks,      \* state.currentTasks, the logger's task registry (line 607)
  rejected,          \* tasks whose add() promise is rejected and that nobody handles
  exited,            \* "no", or why the process ended
  digest,            \* <<>>, and <<the aggregation of the root>> once it is made
                     \* (line 1141-1156)
  admissionLog,      \* history: one entry per run of the admission check (line 1058),
                     \* with the tasks that waited in the queue at that moment
  searchLog,         \* history: the topics a search query was generated for (line 1079)
  waitBacklog,       \* history: tasks not yet settled when the root began onIdle()
  call               \* one call of a pure function taken alone: its name and
                     \* arguments, and its result once it is applied

vars == <<discoveredTopics, researchInsights, queue, pending, inv, taskId,
          currentTasks, rejected, exited, digest, admissionLog, searchLog, waitBacklog,
          call>>

----------------------------------------------------------------------------
(* Program constants *)

MAX_TOPICS == 3

Concurrency == 1

URL_CAP == 4

TOP_N == 3

DEFAULT_SCORE == 5

(* Bounds of the model *)

\* distinct links the searches of one run return, together
MaxLinks == 3

\* tasks submitted to the queue in one run: the topics all calls of
\* discoverNewTopics return, together
MaxTasks == 3

\* the longest text the scoring call answers, for prioritizeInsight taken alone
MaxTextLen == 3

\* the most sentences, and the largest topK, of a call of findSimilarSentences
\* taken alone
MaxSentences == 3

MaxTopK == 3

\* the longest list of Insights aggregated, for the aggregation taken alone
MaxInsights == 5

\* the longest array, and the largest chunkSize, of a call of chunk taken alone
MaxArr == 5

MaxChunkSize == 3

\* the longest page text, and the largest maxChunks, of a call of chunkText
\* taken alone
MaxPageLen == 6

MaxChunks == 2

RootTopic == "root"

\* the topic strings of a run, in the order in which a run first meets them
TopicNames == <<"root", "a", "b", "c">>

Topics == {TopicNames[n] : n \in 1..Len(TopicNames)}

TopicIndex(t) == CHOOSE n \in 1..Len(TopicNames) : TopicNames[n] = t

\* what the scoring call answers in a run: text that parseInt reads as val, or
\* (isNum FALSE) text parseInt reads as NaN
ScoreTexts == {[isNum |-> TRUE, val |-> 11]}

Min(a, b) == IF a < b THEN a ELSE b

Max(a, b) == IF a < b THEN b ELSE a

RECURSIVE ProposalLists(_, _)
\* the lists of at most len topics discoverNewTopics may return when the run has
\* met the first m topic strings; topic strings are opaque, so a string the run
\* has not met yet is taken to be the next of TopicNames
ProposalLists(m, len) ==
  IF len = 0 THEN {<<>>}
  ELSE {<<>>} \cup
       UNION {{<<TopicNames[n]>> \o rest : rest \in ProposalLists(Max(m, n), len - 1)} :
                n \in 1..Min(m + 1, Len(TopicNames))}

----------------------------------------------------------------------------
(* Pure parts of researchTopic *)

\* Admits without the capacity test
AdmitsNoCap(topic, dt) == ~(topic \in dt)

\* Admits with the capacity test off by one
AdmitsOffByOne(topic, dt) == ~(topic \in dt \/ Cardinality(dt) > MAX_TOPICS)

\* line 1058: the negation of the early-return condition
Admits(topic, dt) == ~(topic \in dt \/ Cardinality(dt) >= MAX_TOPICS)

\* NextDiscovered with the insertion made before the test
NextDiscoveredEager(topic, dt) == dt \cup {topic}

\* line 1058-1061: the visited set after the admission check of topic
NextDiscovered(topic, dt) == IF Admits(topic, dt) THEN dt \cup {topic} ELSE dt

\* ParseScore without the default
ParseScoreNoDefault(text) == text.val

\* line 1043: parsed || 5, for what parseInt read (NaN and 0 are falsy)
ParseScore(text) == IF text.isNum /\ text.val # 0 THEN text.val ELSE DEFAULT_SCORE

\* line 1082-1088: the URLs kept of n distinct links
KeptUrls(n) == Min(n, URL_CAP)

\* AfterLoop without the aggregation of the root
AfterLoopReturn(isSubTopic) == "returned"

\* line 1134-1139 and 1201: where an invocation goes after its URL loop
AfterLoop(isSubTopic) == IF isSubTopic THEN "returned" ELSE "onIdle"

\* NextUrl that stays on the same URL
NextUrlRetry(r) == [r EXCEPT !.pc = "fetch"]

\* line 1100: the next URL of the loop, or the end of the loop
NextUrl(r) ==
  IF r.k < r.urls THEN [r EXCEPT !.k = r.k + 1, !.pc = "fetch"]
  ELSE [r EXCEPT !.k = 0, !.pc = AfterLoop(r.isSubTopic)]

\* AfterScore without the isSubTopic test
AfterScoreAlwaysDiscover(r) == [r EXCEPT !.pc = "discover"]

\* line 1119: after an Insight is appended, the root discovers topics
AfterScore(r) == IF ~r.isSubTopic THEN [r EXCEPT !.pc = "discover"] ELSE NextUrl(r)

\* IdleResolved for onEmpty(), which does not wait for the running tasks
EmptyResolved(q, p) == q = <<>>

\* IdleResolved without the await
NoWait(q, p) == TRUE

\* line 1139: researchQueue.onIdle() has resolved
IdleResolved(q, p) == q = <<>> /\ p = {}

\* HasFreeSlot of a queue made without the concurrency option
AlwaysFreeSlot(p) == TRUE

\* line 806: the queue starts a task when fewer than `concurrency` tasks run
HasFreeSlot(p) == Cardinality(p) < Concurrency

\* the record of an invocation at its call (line 1047-1051)
NewInvocation(topic, isSubTopic, parent) ==
  [topic |-> topic, isSubTopic |-> isSubTopic, parent |-> parent, pc |-> "queued",
   urls |-> 0, k |-> 0, newTopics |-> <<>>, tid |-> 0]

\* Entered without the early return
EnteredAlways(r, dt, id) == [r EXCEPT !.pc = "search", !.tid = id]

\* line 1052-1069: the synchronous start of an invocation, up to its first await
Entered(r, dt, id) ==
  IF Admits(r.topic, dt) THEN [r EXCEPT !.pc = "search", !.tid = id]
  ELSE [r EXCEPT !.pc = "returned"]

----------------------------------------------------------------------------
(* Aggregation, line 1141-1156 *)

RECURSIVE TopicOrder(_, _)
\* the keys of insightsByTopic, in the order reduce() creates them
TopicOrder(ins, seen) ==
  IF ins = <<>> THEN <<>>
  ELSE IF Head(ins).topic \in seen THEN TopicOrder(Tail(ins), seen)
       ELSE <<Head(ins).topic>> \o TopicOrder(Tail(ins), seen \cup {Head(ins).topic})

RECURSIVE InsertDesc(_, _)
\* x put into s, sorted by descending score, after the entries of equal score
InsertDesc(x, s) ==
  IF s = <<>> THEN <<x>>
  ELSE IF Head(s).score >= x.score THEN <<Head(s)>> \o InsertDesc(x, Tail(s))
       ELSE <<x>> \o s

\* SortDesc without the sort
NoSort(s) == s

RECURSIVE SortDesc(_)
\* Array.prototype.sort with (a, b) => b.score - a.score, which is stable
SortDesc(s) ==
  IF s = <<>> THEN <<>>
  ELSE InsertDesc(s[Len(s)], SortDesc(SubSeq(s, 1, Len(s) - 1)))

Aggregate(ins) ==
  LET order == TopicOrder(ins, {})
      group(t) == SortDesc(SelectSeq(ins, LAMBDA i : i.topic = t))
  IN [n \in 1..Len(order) |->
        [topic |-> order[n],
         top |-> SubSeq(group(order[n]), 1, Min(TOP_N, Len(group(order[n]))))]]

----------------------------------------------------------------------------
Init ==
  /\ discoveredTopics = {}
  /\ researchInsights = <<>>
  /\ queue = <<>>
  /\ pending = {}
  /\ inv = <<>>
  /\ taskId = 0
  /\ currentTasks = {}
  /\ rejected = {}
  /\ exited = "no"
  /\ digest = <<>>
  /\ admissionLog = <<>>
  /\ searchLog = <<>>
  /\ waitBacklog = 0
  /\ call = [fn |-> "none"]

Alive == exited = "no"

\* how many of TopicNames the run has met
KnownTopics ==
  LET met == {TopicIndex(inv[j].topic) : j \in 1..Len(inv)}
  IN CHOOSE m \in met : \A n \in met : n <= m

RECURSIVE SumUrls(_)
SumUrls(n) == IF n = 0 THEN 0 ELSE inv[n].urls + SumUrls(n - 1)

\* the links the searches of the run have returned so far
LinksSeen == SumUrls(Len(inv))

Unsettled == {j \in 2..Len(inv) : inv[j].pc \notin {"settled", "rejected"}}

\* the effects of line 1052-1069 for an invocation of topic, other than on inv
StartEffects(j, topic, waiting) ==
  /\ discoveredTopics' = NextDiscovered(topic, discoveredTopics)
  /\ taskId' = IF Admits(topic, discoveredTopics) THEN taskId + 1 ELSE taskId
  /\ currentTasks' = IF Admits(topic, discoveredTopics)
                     THEN currentTasks \cup {taskId + 1} ELSE currentTasks
  /\ searchLog' = IF Admits(topic, discoveredTopics)
                  THEN Append(searchLog, topic) ELSE searchLog
  /\ admissionLog' = Append(admissionLog,
                            [id |-> j, topic |-> topic, waiting |-> waiting,
                             size |-> Cardinality(discoveredTopics),
                             present |-> topic \in discoveredTopics,
                             admitted |-> Admits(topic, discoveredTopics)])

NoStart == UNCHANGED <<discoveredTopics, taskId, currentTasks, searchLog, admissionLog>>

\* inv with invocation i moved to record r; the root reaching onIdle() is noted
Moved(i, r) == [inv EXCEPT ![i] = r]

NoteWait(r) ==
  waitBacklog' = IF r.pc = "onIdle" THEN Cardinality(Unsettled) ELSE waitBacklog

\* line 1210: the script calls researchTopic(topic)
Launch ==
  /\ Alive
  /\ UNCHANGED call
  /\ inv = <<>>
  /\ inv' = <<Entered(NewInvocation(RootTopic, FALSE, 0), discoveredTopics, taskId + 1)>>
  /\ StartEffects(1, RootTopic, {})
  /\ UNCHANGED <<researchInsights, queue, pending, rejected, exited, digest, waitBacklog>>

\* an invocation throws: line 1210-1213 for the root, the queue's task for a sub-topic
Thrown(i) ==
  /\ inv' = [inv EXCEPT ![i] = [@ EXCEPT !.pc = "threw", !.k = 0, !.newTopics = <<>>]]
  /\ exited' = IF i = 1 THEN "rootError" ELSE exited

\* line 1079-1090: the query and the search succeed
SearchOk(i) ==
  /\ Alive
  /\ UNCHANGED call
  /\ i \in 1..Len(inv)
  /\ inv[i].pc = "search"
  /\ \E n \in 0..(MaxLinks - LinksSeen) :
       LET r == [inv[i] EXCEPT !.urls = KeptUrls(n), !.k = 0]
       IN /\ inv' = Moved(i, NextUrl(r))
          /\ NoteWait(NextUrl(r))
  /\ NoStart
  /\ UNCHANGED <<researchInsights, queue, pending, rejected, exited, digest>>

\* SearchFail without the try/catch
SearchFailRethrow(i) ==
  /\ Alive
  /\ UNCHANGED call
  /\ i \in 1..Len(inv)
  /\ inv[i].pc = "search"
  /\ Thrown(i)
  /\ UNCHANGED <<discoveredTopics, researchInsights, queue, pending, taskId, rejected,
                 currentTasks, digest, admissionLog, searchLog, waitBacklog>>

\* SearchFail that gives the topic's place in the visited set back
SearchFailForget(i) ==
  /\ Alive
  /\ UNCHANGED call
  /\ i \in 1..Len(inv)
  /\ inv[i].pc = "search"
  /\ currentTasks' = currentTasks \ {inv[i].tid}
  /\ discoveredTopics' = discoveredTopics \ {inv[i].topic}
  /\ inv' = [inv EXCEPT ![i].pc = "returned"]
  /\ UNCHANGED <<researchInsights, queue, pending, taskId, rejected,
                 exited, digest, admissionLog, searchLog, waitBacklog>>

\* line 1091-1096: generateQuery or searchGoogle fails
SearchFail(i) ==
  /\ Alive
  /\ UNCHANGED call
  /\ i \in 1..Len(inv)
  /\ inv[i].pc = "search"
  /\ currentTasks' = currentTasks \ {inv[i].tid}
  /\ inv' = [inv EXCEPT ![i].pc = "returned"]
  /\ UNCHANGED <<discoveredTopics, researchInsights, queue, pending, taskId, rejected,
                 exited, digest, admissionLog, searchLog, waitBacklog>>

\* line 1103-1104, 1130-1132: the page is fetched; no chunks means the URL is skipped
Fetch(i) ==
  /\ Alive
  /\ UNCHANGED call
  /\ i \in 1..Len(inv)
  /\ inv[i].pc = "fetch"
  /\ \E hasContent \in BOOLEAN :
       LET r == IF hasContent THEN [inv[i] EXCEPT !.pc = "analyze"] ELSE NextUrl(inv[i])
       IN /\ inv' = Moved(i, r)
          /\ NoteWait(r)
  /\ NoStart
  /\ UNCHANGED <<researchInsights, queue, pending, rejected, exited, digest>>

\* line 1106-1119: findSimilarSentences, summarizeContent and prioritizeInsight are
\* awaited in turn, each may throw, and none touches the shared state before the
\* Insight is appended
Analyze(i) ==
  /\ Alive
  /\ UNCHANGED call
  /\ i \in 1..Len(inv)
  /\ inv[i].pc = "analyze"
  /\ \/ \E text \in ScoreTexts :
          /\ researchInsights' = Append(researchInsights,
                                        [topic |-> inv[i].topic, url |-> inv[i].k,
                                         score |-> ParseScore(text)])
          /\ inv' = Moved(i, AfterScore(inv[i]))
          /\ NoteWait(AfterScore(inv[i]))
          /\ UNCHANGED exited
     \/ \E failing \in {"findSimilarSentences", "summarizeContent", "prioritizeInsight"} :
          /\ Thrown(i)
          /\ UNCHANGED <<researchInsights, waitBacklog>>
  /\ NoStart
  /\ UNCHANGED <<queue, pending, rejected, digest>>

\* line 1121-1125: discoverNewTopics
Discover(i) ==
  /\ Alive
  /\ UNCHANGED call
  /\ i \in 1..Len(inv)
  /\ inv[i].pc = "discover"
  /\ \/ \E list \in ProposalLists(KnownTopics, MaxTasks - (Len(inv) - 1)) :
          LET r == IF list = <<>> THEN NextUrl(inv[i])
                   ELSE [inv[i] EXCEPT !.pc = "delay", !.newTopics = list]
          IN /\ inv' = Moved(i, r)
             /\ NoteWait(r)
             /\ UNCHANGED exited
     \/ Thrown(i) /\ UNCHANGED waitBacklog
  /\ NoStart
  /\ UNCHANGED <<researchInsights, queue, pending, rejected, digest>>

\* line 1126-1127: the pacing timer fires and the next proposed topic is added to the
\* queue, which calls the task at once when a slot is free
Submit(i) ==
  /\ Alive
  /\ UNCHANGED call
  /\ i \in 1..Len(inv)
  /\ inv[i].pc = "delay"
  /\ LET newTopic == Head(inv[i].newTopics)
         j == Len(inv) + 1
         task == NewInvocation(newTopic, TRUE, i)
         rest == Tail(inv[i].newTopics)
         r == IF rest = <<>> THEN NextUrl([inv[i] EXCEPT !.newTopics = <<>>])
              ELSE [inv[i] EXCEPT !.newTopics = rest]
     IN IF HasFreeSlot(pending)
        THEN /\ pending' = pending \cup {j}
             /\ inv' = Append(Moved(i, r), Entered(task, discoveredTopics, taskId + 1))
             /\ StartEffects(j, newTopic, {})
             /\ waitBacklog' = IF r.pc = "onIdle"
                               THEN Cardinality(Unsettled) + 1 ELSE waitBacklog
             /\ UNCHANGED queue
        ELSE /\ queue' = Append(queue, j)
             /\ inv' = Append(Moved(i, r), task)
             /\ NoStart
             /\ waitBacklog' = IF r.pc = "onIdle"
                               THEN Cardinality(Unsettled) + 1 ELSE waitBacklog
             /\ UNCHANGED pending
  /\ UNCHANGED <<researchInsights, rejected, exited, digest>>

\* Settle for a queue that starts the task submitted last
SettleLifo(j) ==
  /\ Alive
  /\ UNCHANGED call
  /\ j \in pending
  /\ inv[j].pc \in {"returned", "threw"}
  /\ rejected' = IF inv[j].pc = "threw" THEN rejected \cup {j} ELSE rejected
  /\ LET done == [inv EXCEPT ![j].pc = IF inv[j].pc = "threw" THEN "rejected" ELSE "settled"]
     IN IF queue # <<>> /\ HasFreeSlot(pending \ {j})
        THEN /\ queue' = SubSeq(queue, 1, Len(queue) - 1)
             /\ pending' = (pending \ {j}) \cup {queue[Len(queue)]}
             /\ inv' = [done EXCEPT ![queue[Len(queue)]] =
                          Entered(inv[queue[Len(queue)]], discoveredTopics, taskId + 1)]
             /\ StartEffects(queue[Len(queue)], inv[queue[Len(queue)]].topic,
                             {queue[n] : n \in 1..(Len(queue) - 1)})
        ELSE /\ pending' = pending \ {j}
             /\ inv' = done
             /\ NoStart
             /\ UNCHANGED queue
  /\ UNCHANGED <<researchInsights, exited, digest, waitBacklog>>

\* the queue settles task j (its function returned or threw): add()'s promise is
\* resolved or rejected, and the next waiting task is called (line 1127)
Settle(j) ==
  /\ Alive
  /\ UNCHANGED call
  /\ j \in pending
  /\ inv[j].pc \in {"returned", "threw"}
  /\ rejected' = IF inv[j].pc = "threw" THEN rejected \cup {j} ELSE rejected
  /\ LET done == [inv EXCEPT ![j].pc = IF inv[j].pc = "threw" THEN "rejected" ELSE "settled"]
     IN IF queue # <<>> /\ HasFreeSlot(pending \ {j})
        THEN /\ queue' = Tail(queue)
             /\ pending' = (pending \ {j}) \cup {Head(queue)}
             /\ inv' = [done EXCEPT ![Head(queue)] =
                          Entered(inv[Head(queue)], discoveredTopics, taskId + 1)]
             /\ StartEffects(Head(queue), inv[Head(queue)].topic,
                             {queue[n] : n \in 2..Len(queue)})
        ELSE /\ pending' = pending \ {j}
             /\ inv' = done
             /\ NoStart
             /\ UNCHANGED queue
  /\ UNCHANGED <<researchInsights, exited, digest, waitBacklog>>

\* OnIdle with an aggregation that takes the Insights out of the shared list
OnIdleConsume ==
  /\ Alive
  /\ UNCHANGED call
  /\ inv # <<>>
  /\ inv[1].pc = "onIdle"
  /\ IdleResolved(queue, pending)
  /\ digest' = <<Aggregate(researchInsights)>>
  /\ researchInsights' = <<>>
  /\ inv' = [inv EXCEPT ![1].pc = "paper"]
  /\ NoStart
  /\ UNCHANGED <<queue, pending, rejected, exited, waitBacklog>>

\* line 1139-1164: onIdle() resolves, the root aggregates and asks for the paper
OnIdle ==
  /\ Alive
  /\ UNCHANGED call
  /\ inv # <<>>
  /\ inv[1].pc = "onIdle"
  /\ IdleResolved(queue, pending)
  /\ digest' = <<Aggregate(researchInsights)>>
  /\ inv' = [inv EXCEPT ![1].pc = "paper"]
  /\ NoStart
  /\ UNCHANGED <<researchInsights, queue, pending, rejected, exited, waitBacklog>>

\* line 1164-1199: generateResearchPaper
Paper ==
  /\ Alive
  /\ UNCHANGED call
  /\ inv # <<>>
  /\ inv[1].pc = "paper"
  /\ \/ inv' = [inv EXCEPT ![1].pc = "returned"] /\ UNCHANGED exited
     \/ Thrown(1)
  /\ NoStart
  /\ UNCHANGED <<researchInsights, queue, pending, rejected, digest, waitBacklog>>

\* line 1127: the promise add() returned is dropped, so the rejection of a task that
\* threw is unhandled; the runtime may end the process for it
UnhandledRejection ==
  /\ Alive
  /\ UNCHANGED call
  /\ rejected # {}
  /\ exited' = "unhandledRejection"
  /\ UNCHANGED <<discoveredTopics, researchInsights, queue, pending, inv, taskId,
                 currentTasks, rejected, digest, admissionLog, searchLog, waitBacklog>>

Next ==
  \/ Launch
  \/ \E i \in 1..Len(inv) :
       \/ SearchOk(i)
       \/ SearchFail(i)
       \/ Fetch(i)
       \/ Analyze(i)
       \/ Discover(i)
       \/ Submit(i)
       \/ Settle(i)
  \/ OnIdle
  \/ Paper
  \/ UnhandledRejection

Spec == Init /\ [][Next]_vars

\* every external call (search, fetch, embedding, language-model call, pacing
\* timer) eventually returns or fails, and the event loop runs every callback
\* that is ready; nothing is assumed about when, or whether, the runtime ends
\* the process for an unhandled rejection
Fairness ==
  /\ WF_vars(Launch)
  /\ \A i \in 1..(MaxTasks + 1) :
       /\ WF_vars(SearchOk(i) \/ SearchFail(i))
       /\ WF_vars(Fetch(i))
       /\ WF_vars(Analyze(i))
       /\ WF_vars(Discover(i))
       /\ WF_vars(Submit(i))
       /\ WF_vars(Settle(i))
  /\ WF_vars(OnIdle)
  /\ WF_vars(Paper)

SpecLive == Spec /\ Fairness

----------------------------------------------------------------------------
(* prioritizeInsight, findSimilarSentences and the aggregation, each taken
   alone as a function of its inputs *)

\* the characters of the text the scoring call answers
Chars == {" ", "-", "0", "1", "x"}

Whitespace == {" "}

DigitChars == <<"0", "1", "2", "3", "4", "5", "6", "7", "8", "9">>

Digits == {DigitChars[n] : n \in 1..Len(DigitChars)}

DigitValue(c) == (CHOOSE n \in 1..Len(DigitChars) : DigitChars[n] = c) - 1

RECURSIVE TextsUpTo(_)
\* the texts of at most len characters
TextsUpTo(len) ==
  IF len = 0 THEN {<<>>}
  ELSE LET shorter == TextsUpTo(len - 1)
       IN shorter \cup {<<c>> \o t : c \in Chars, t \in {u \in shorter : Len(u) = len - 1}}

RECURSIVE TrimStart(_)
TrimStart(s) == IF s # <<>> /\ Head(s) \in Whitespace THEN TrimStart(Tail(s)) ELSE s

RECURSIVE TrimEnd(_)
TrimEnd(s) ==
  IF s # <<>> /\ s[Len(s)] \in Whitespace THEN TrimEnd(SubSeq(s, 1, Len(s) - 1)) ELSE s

\* String.prototype.trim
Trim(s) == TrimEnd(TrimStart(s))

RECURSIVE DigitPrefixLen(_)
\* the number of leading decimal digits of s
DigitPrefixLen(s) ==
  IF s # <<>> /\ Head(s) \in Digits THEN 1 + DigitPrefixLen(Tail(s)) ELSE 0

RECURSIVE DigitsValue(_)
\* the number a string of decimal digits denotes
DigitsValue(s) ==
  IF s = <<>> THEN 0
  ELSE 10 * DigitsValue(SubSeq(s, 1, Len(s) - 1)) + DigitValue(s[Len(s)])

\* parseInt(s, 10): leading whitespace is skipped, then an optional sign, then the
\* longest run of digits is read and the rest ignored; no digit gives NaN
\* (isNum FALSE)
ParseInt(s) ==
  LET t == TrimStart(s)
      signed == t # <<>> /\ Head(t) \in {"-", "+"}
      body == IF signed THEN Tail(t) ELSE t
      n == DigitPrefixLen(body)
      magnitude == DigitsValue(SubSeq(body, 1, n))
  IN IF n = 0 THEN [isNum |-> FALSE, val |-> 0]
     ELSE [isNum |-> TRUE, val |-> IF signed /\ Head(t) = "-" THEN 0 - magnitude ELSE magnitude]

\* line 1043, for the text the scoring call answered
PrioritizeInsight(text) == ParseScore(ParseInt(Trim(text)))

\* the embedding vectors the embedding call may answer
Vectors == {<<0, 1>>, <<1, 0>>, <<1, 1>>}

RECURSIVE VectorLists(_)
\* the lists of at most len vectors
VectorLists(len) ==
  IF len = 0 THEN {<<>>}
  ELSE LET shorter == VectorLists(len - 1)
       IN shorter \cup {<<v>> \o l : v \in Vectors, l \in {u \in shorter : Len(u) = len - 1}}

RECURSIVE dot(_, _)
\* utils.ts, dot: arr1.reduce((acc, val, i) => acc + val * arr2[i], 0)
dot(arr1, arr2) ==
  IF arr1 = <<>> THEN 0
  ELSE dot(SubSeq(arr1, 1, Len(arr1) - 1), arr2) + arr1[Len(arr1)] * arr2[Len(arr1)]

innerProduct(embeddingA, embeddingB) == 1 - dot(embeddingA, embeddingB)

\* Array.prototype.slice(begin, end) for 0 <= begin and 0 <= end: the elements at
\* the 0-based positions begin .. end - 1 that exist
Slice(s, begin, end) == SubSeq(s, begin + 1, Min(end, Len(s)))

RECURSIVE InsertAsc(_, _)
\* x put into s, sorted by ascending distance, after the entries of equal distance
InsertAsc(x, s) ==
  IF s = <<>> THEN <<x>>
  ELSE IF Head(s).distance <= x.distance THEN <<Head(s)>> \o InsertAsc(x, Tail(s))
       ELSE <<x>> \o s

RECURSIVE SortAsc(_)
\* Array.prototype.sort with (a, b) => a.distance - b.distance, which is stable
SortAsc(s) ==
  IF s = <<>> THEN <<>>
  ELSE InsertAsc(s[Len(s)], SortAsc(SubSeq(s, 1, Len(s) - 1)))

\* findSimilarSentences for n sentences, given what embedMany answered: embed.ok
\* FALSE is a rejected call; indices are 0-based as in the code
findSimilarSentences(embed, n, topK) ==
  IF ~embed.ok THEN [ok |-> FALSE, value |-> <<>>]
  ELSE LET embeddings == embed.embeddings
           inputsLength == 1 + n
           sentencesEmbeddings == Slice(embeddings, 1, inputsLength - 1)
           distancesFromQuery ==
             [x \in 1..Len(sentencesEmbeddings) |->
                [distance |-> innerProduct(embeddings[1], sentencesEmbeddings[x]),
                 index |-> x - 1]]
           sorted == SortAsc(distancesFromQuery)
       IN [ok |-> TRUE, value |-> [x \in 1..Min(topK, Len(sorted)) |-> sorted[x].index]]

\* what embedMany may answer: a rejection, or a list of vectors, of the right
\* length or not
EmbedAnswers(n) ==
  {[ok |-> FALSE, embeddings |-> <<>>]} \cup
  {[ok |-> TRUE, embeddings |-> l] : l \in VectorLists(n + 2)}

\* the scores of the Insights of an aggregated list
InsightScores == {DEFAULT_SCORE, 7, 11}

InsightTopicNames == {"root", "a"}

RECURSIVE InsightLists(_)
\* the lists of at most len Insights; the url of an Insight is its position
InsightLists(len) ==
  IF len = 0 THEN {<<>>}
  ELSE LET shorter == InsightLists(len - 1)
       IN shorter \cup
          {l \o <<[topic |-> t, url |-> len, score |-> s]>> :
             t \in InsightTopicNames, s \in InsightScores,
             l \in {u \in shorter : Len(u) = len - 1}}

\* the chunkSize arguments of chunk, a JavaScript number: NaN, or halves / 2,
\* which covers negative, zero, fractional and whole sizes
ChunkSizes ==
  {[nan |-> TRUE, halves |-> 0]} \cup
  {[nan |-> FALSE, halves |-> h] : h \in (0 - 2)..(2 * MaxChunkSize)}

\* Math.ceil(a / b) for whole a >= 0 and b > 0
CeilDiv(a, b) == (a + b - 1) \div b

\* utils.ts, range(n) without its second argument: 0, 1, .. n - 1
range(n) == [x \in 1..n |-> x - 1]

\* utils.ts, chunk: ok FALSE is the RangeError; slice() truncates a fractional
\* position to a whole one
chunk(arr, chunkSize) ==
  IF chunkSize.nan \/ chunkSize.halves < 2 THEN [ok |-> FALSE, value |-> <<>>]
  ELSE IF Len(arr) = 0 THEN [ok |-> TRUE, value |-> <<>>]
  ELSE IF 2 * Len(arr) <= chunkSize.halves THEN [ok |-> TRUE, value |-> <<arr>>]
  ELSE LET is == range(CeilDiv(2 * Len(arr), chunkSize.halves))
       IN [ok |-> TRUE,
           value |-> [x \in 1..Len(is) |->
                        Slice(arr, (is[x] * chunkSize.halves) \div 2,
                              ((is[x] + 1) * chunkSize.halves) \div 2)]]

\* the characters of a page text: a letter, a sentence end and a blank
PageChars == {"a", ".", " "}

SentenceEnds == {".", "!", "?"}

RECURSIVE PageTexts(_)
\* the page texts of at most len characters
PageTexts(len) ==
  IF len = 0 THEN {<<>>}
  ELSE LET shorter == PageTexts(len - 1)
       IN shorter \cup {<<c>> \o t : c \in PageChars, t \in {u \in shorter : Len(u) = len - 1}}

\* the minLength and overlap options of a call of chunkText
MinLengths == {0, 2}

Overlaps == {0, 10}

RECURSIVE RunEnd(_, _)
\* the first position from i on that holds no whitespace, Len(s) + 1 if none
RunEnd(s, i) == IF i <= Len(s) /\ s[i] \in Whitespace THEN RunEnd(s, i + 1) ELSE i

RECURSIVE SplitFrom(_, _, _)
\* text.ts line 22, split(/(?<=[.!?])\s+/) from position i on, the piece under
\* way starting at position start: a run of whitespace that follows a sentence
\* end separates two pieces
SplitFrom(s, i, start) ==
  IF i > Len(s) THEN <<SubSeq(s, start, Len(s))>>
  ELSE IF s[i] \in Whitespace /\ i > 1 /\ s[i - 1] \in SentenceEnds
       THEN <<SubSeq(s, start, i - 1)>> \o SplitFrom(s, RunEnd(s, i), RunEnd(s, i))
       ELSE SplitFrom(s, i + 1, start)

SplitSentences(text) == SplitFrom(text, 1, 1)

RECURSIVE SplitSpaces(_)
\* String.prototype.split(' ')
SplitSpaces(s) ==
  IF \E n \in 1..Len(s) : s[n] = " "
  THEN LET n == CHOOSE n \in 1..Len(s) : s[n] = " " /\ \A m \in 1..(n - 1) : s[m] # " "
       IN <<SubSeq(s, 1, n - 1)>> \o SplitSpaces(SubSeq(s, n + 1, Len(s)))
  ELSE <<s>>

RECURSIVE JoinSpaces(_)
\* Array.prototype.join(' ')
JoinSpaces(words) ==
  IF words = <<>> THEN <<>>
  ELSE IF Len(words) = 1 THEN words[1]
       ELSE words[1] \o <<" ">> \o JoinSpaces(Tail(words))

\* Array.prototype.slice(-k) for k >= 0: the last k entries, and, as -0 is 0,
\* every entry when k = 0
SliceLast(words, k) ==
  IF k = 0 THEN words ELSE SubSeq(words, Max(1, Len(words) - k + 1), Len(words))

\* Capped that keeps the latest chunks
CappedLast(chunks, maxChunks) ==
  SubSeq(chunks, Max(1, Len(chunks) - maxChunks + 1), Len(chunks))

\* text.ts line 47 and deep-research.ts line 864: slice(0, maxChunks)
Capped(chunks, maxChunks) == Slice(chunks, 0, maxChunks)

RECURSIVE ChunkLoop(_, _, _)
\* text.ts line 30-38 for the segments left, from the state st of the loop:
\* the chunks pushed, the chunk under way, and the text kept at line 35 at each
\* push
ChunkLoop(segments, st, opts) ==
  IF segments = <<>> THEN st
  ELSE LET segment == Head(segments)
           full == Len(st.currentChunk) + Len(segment) > opts.chunkSize
           words == SplitSpaces(st.currentChunk)
           kept == JoinSpaces(SliceLast(words, opts.overlap \div 10))
           pushed == IF full THEN Append(st.chunks, Trim(st.currentChunk)) ELSE st.chunks
           carried == IF full THEN Append(st.carried, kept) ELSE st.carried
           current == IF full THEN kept ELSE st.currentChunk
       IN ChunkLoop(Tail(segments),
                    [chunks |-> pushed, carried |-> carried,
                     currentChunk |-> current \o <<" ">> \o segment],
                    opts)

\* text.ts line 21-42: the segments, the loop and the last push
ChunkPasses(text, opts) ==
  LET pieces == SplitSentences(text)
      trimmed == [n \in 1..Len(pieces) |-> Trim(pieces[n])]
      segments == SelectSeq(trimmed, LAMBDA seg : Len(seg) >= opts.minLength)
      st == ChunkLoop(segments, [chunks |-> <<>>, carried |-> <<>>, currentChunk |-> <<>>],
                      opts)
  IN [st EXCEPT !.chunks = IF Trim(st.currentChunk) # <<>>
                           THEN Append(st.chunks, Trim(st.currentChunk))
                           ELSE st.chunks]

\* text.ts line 45-47: the chunks before the cut
LongEnough(text, opts) ==
  SelectSeq(ChunkPasses(text, opts).chunks, LAMBDA c : Len(c) >= opts.minLength)

\* text.ts, chunkText, every option given
chunkText(text, opts) == Capped(LongEnough(text, opts), opts.maxChunks)

\* deep-research.ts line 864, for a page text and whole positive values of
\* CHUNK_CHAR_LENGTH and MAX_N_CHUNKS
parseWebChunks(text, chunkCharLength, maxNChunks) ==
  Capped(chunk(text, [nan |-> FALSE, halves |-> 2 * chunkCharLength]).value, maxNChunks)

InitFn ==
  /\ discoveredTopics = {}
  /\ researchInsights = <<>>
  /\ queue = <<>>
  /\ pending = {}
  /\ inv = <<>>
  /\ taskId = 0
  /\ currentTasks = {}
  /\ rejected = {}
  /\ exited = "no"
  /\ digest = <<>>
  /\ admissionLog = <<>>
  /\ searchLog = <<>>
  /\ waitBacklog = 0
  /\ \/ \E text \in TextsUpTo(MaxTextLen) :
          call = [fn |-> "prioritizeInsight", done |-> FALSE, text |-> text]
     \/ \E n \in 0..MaxSentences, topK \in 1..MaxTopK :
          \E embed \in EmbedAnswers(n) :
            call = [fn |-> "findSimilarSentences", done |-> FALSE,
                    n |-> n, topK |-> topK, embed |-> embed]
     \/ \E ins \in InsightLists(MaxInsights) :
          call = [fn |-> "aggregate", done |-> FALSE, ins |-> ins]
     \/ \E text \in PageTexts(MaxPageLen), maxChunks \in 0..MaxChunks,
           chunkSize \in 1..MaxChunkSize, minLength \in MinLengths, overlap \in Overlaps :
          call = [fn |-> "chunkText", done |-> FALSE, text |-> text,
                  opts |-> [maxChunks |-> maxChunks, chunkSize |-> chunkSize,
                            minLength |-> minLength, overlap |-> overlap]]
     \/ \E len \in 0..MaxArr, chunkCharLength \in 1..MaxChunkSize,
           maxNChunks \in 1..MaxChunks :
          call = [fn |-> "parseWeb", done |-> FALSE, text |-> [x \in 1..len |-> x],
                  chunkCharLength |-> chunkCharLength, maxNChunks |-> maxNChunks]
     \/ \E len \in 0..MaxArr, chunkSize \in ChunkSizes :
          call = [fn |-> "chunk", done |-> FALSE,
                  arr |-> [x \in 1..len |-> x], chunkSize |-> chunkSize]

ApplyPrioritizeInsight ==
  /\ call.fn = "prioritizeInsight"
  /\ ~call.done
  /\ call' = [fn |-> call.fn, done |-> TRUE, text |-> call.text,
              out |-> PrioritizeInsight(call.text)]
  /\ UNCHANGED <<discoveredTopics, researchInsights, queue, pending, inv, taskId,
                 currentTasks, rejected, exited, digest, admissionLog, searchLog,
                 waitBacklog>>

ApplyFindSimilarSentences ==
  /\ call.fn = "findSimilarSentences"
  /\ ~call.done
  /\ call' = [fn |-> call.fn, done |-> TRUE, n |-> call.n, topK |-> call.topK,
              embed |-> call.embed,
              out |-> findSimilarSentences(call.embed, call.n, call.topK)]
  /\ UNCHANGED <<discoveredTopics, researchInsights, queue, pending, inv, taskId,
                 currentTasks, rejected, exited, digest, admissionLog, searchLog,
                 waitBacklog>>

ApplyAggregate ==
  /\ call.fn = "aggregate"
  /\ ~call.done
  /\ call' = [fn |-> call.fn, done |-> TRUE, ins |-> call.ins,
              out |-> Aggregate(call.ins)]
  /\ UNCHANGED <<discoveredTopics, researchInsights, queue, pending, inv, taskId,
                 currentTasks, rejected, exited, digest, admissionLog, searchLog,
                 waitBacklog>>

ApplyChunk ==
  /\ call.fn = "chunk"
  /\ ~call.done
  /\ call' = [fn |-> call.fn, done |-> TRUE, arr |-> call.arr,
              chunkSize |-> call.chunkSize, out |-> chunk(call.arr, call.chunkSize)]
  /\ UNCHANGED <<discoveredTopics, researchInsights, queue, pending, inv, taskId,
                 currentTasks, rejected, exited, digest, admissionLog, searchLog,
                 waitBacklog>>

ApplyChunkText ==
  /\ call.fn = "chunkText"
  /\ ~call.done
  /\ call' = [fn |-> call.fn, done |-> TRUE, text |-> call.text, opts |-> call.opts,
              passes |-> ChunkPasses(call.text, call.opts),
              out |-> chunkText(call.text, call.opts)]
  /\ UNCHANGED <<discoveredTopics, researchInsights, queue, pending, inv, taskId,
                 currentTasks, rejected, exited, digest, admissionLog, searchLog,
                 waitBacklog>>

ApplyParseWeb ==
  /\ call.fn = "parseWeb"
  /\ ~call.done
  /\ call' = [fn |-> call.fn, done |-> TRUE, text |-> call.text,
              chunkCharLength |-> call.chunkCharLength, maxNChunks |-> call.maxNChunks,
              out |-> parseWebChunks(call.text, call.chunkCharLength, call.maxNChunks)]
  /\ UNCHANGED <<discoveredTopics, researchInsights, queue, pending, inv, taskId,
                 currentTasks, rejected, exited, digest, admissionLog, searchLog,
                 waitBacklog>>

NextFn ==
  \/ ApplyPrioritizeInsight
  \/ ApplyFindSimilarSentences
  \/ ApplyAggregate
  \/ ApplyChunk
  \/ ApplyChunkText
  \/ ApplyParseWeb

SpecFn == InitFn /\ [][NextFn]_vars

----------------------------------------------------------------------------
(* Properties *)

Last(s) == s[Len(s)]

Range(s) == {s[n] : n \in 1..Len(s)}

\* the positions of an invocation that searches or processes its topic
Researching == {"search", "fetch", "analyze", "discover", "delay", "onIdle", "paper"}

\* invocation j returned from the admission check: it logged no task, searched
\* nothing and processed no URL
NotResearched(j) ==
  /\ inv[j].pc \in {"returned", "settled"}
  /\ inv[j].tid = 0
  /\ inv[j].urls = 0

\* the search of invocation j failed: its logger task was ended (line 1094)
SearchFailed(j) == inv[j].tid # 0 /\ inv[j].tid \notin currentTasks

InsightTopics == {researchInsights[n].topic : n \in 1..Len(researchInsights)}

\* C1: in every reachable state the visited set discoveredTopics holds at most
\* MAX_TOPICS topics.
C1_TopicBudget == Cardinality(discoveredTopics) <= MAX_TOPICS

\* the set is full and a topic that was not in it has been refused
C1_Witness ==
  /\ Cardinality(discoveredTopics) = MAX_TOPICS
  /\ \E n \in 1..Len(admissionLog) :
       ~admissionLog[n].admitted /\ ~admissionLog[n].present

\* C2: the admission check and the insertion are one step. Every check sees the
\* insertions of all earlier checks, and of two invocations for distinct new
\* topics that meet the set at MAX_TOPICS - 1 topics, the first is admitted and
\* the other returns without being researched.
C2_AtomicAdmission ==
  /\ \A n \in 1..Len(admissionLog) :
       admissionLog[n].size = Cardinality({m \in 1..(n - 1) : admissionLog[m].admitted})
  /\ \A m, n \in 1..Len(admissionLog) :
       ( /\ m < n
         /\ admissionLog[m].size = MAX_TOPICS - 1
         /\ ~admissionLog[m].present
         /\ admissionLog[n].topic # admissionLog[m].topic
         /\ ~admissionLog[n].present )
       => /\ admissionLog[m].admitted
          /\ ~admissionLog[n].admitted
          /\ NotResearched(admissionLog[n].id)

\* two tasks for distinct new topics waited together while the set held
\* MAX_TOPICS - 1 topics; one was admitted and the other refused
C2_Witness ==
  \E m, n \in 1..Len(admissionLog) :
    /\ m < n
    /\ admissionLog[m].size = MAX_TOPICS - 1
    /\ admissionLog[m].admitted
    /\ admissionLog[n].id \in admissionLog[m].waiting
    /\ ~admissionLog[n].present
    /\ ~admissionLog[n].admitted

\* C3: the root's wait on researchQueue.onIdle() returns only when no task waits
\* and no task runs, and every task submitted by then, whenever it was added, has
\* settled.
C3_DrainCompleteness ==
  [][(inv # <<>> /\ inv[1].pc = "onIdle" /\ inv'[1].pc # "onIdle")
       => /\ queue = <<>>
          /\ pending = {}
          /\ \A j \in 2..Len(inv) : inv[j].pc \in {"settled", "rejected"}]_vars

\* the wait began with two tasks not settled, and has returned
C3_Witness ==
  /\ inv # <<>>
  /\ inv[1].pc = "paper"
  /\ waitBacklog >= 2

\* C4: once the root has aggregated, every task it submitted has settled and no
\* Insight is appended any more.
C4_AggregateAfterDrain ==
  /\ [](digest # <<>> => Unsettled = {})
  /\ [][digest # <<>> => researchInsights' = researchInsights]_vars

\* the root waited for a sub-topic task and aggregated an Insight of a sub-topic
C4_Witness ==
  /\ digest # <<>>
  /\ waitBacklog >= 1
  /\ \E t \in InsightTopics : t # RootTopic

\* C5: a sub-topic task that throws does not end the run before the root has
\* aggregated.
C5_FaultIsolation == ~(exited = "unhandledRejection" /\ digest = <<>>)

\* C6: at most Concurrency tasks of the queue execute, the executing tasks are the
\* queue's pending ones, and a task waits only while Concurrency tasks execute.
C6_ConcurrencyCeiling ==
  /\ Cardinality(pending) <= Concurrency
  /\ queue # <<>> => Cardinality(pending) = Concurrency
  /\ pending = {j \in 2..Len(inv) : inv[j].pc \notin {"queued", "settled", "rejected"}}
  /\ Range(queue) = {j \in 2..Len(inv) : inv[j].pc = "queued"}

\* a task was taken from the queue when the task before it settled, and executes
\* while another one waits
C6_Witness ==
  /\ queue # <<>>
  /\ \E m \in 1..Len(admissionLog) :
       /\ admissionLog[m].waiting # {}
       /\ admissionLog[m].id \in pending
       /\ inv[admissionLog[m].id].pc = "search"

\* C7: an invocation with isSubTopic = TRUE never discovers topics and never
\* submits a task; every task of the queue was submitted by the root.
C7_NoExpansionFromSubTopic ==
  /\ \A j \in 1..Len(inv) :
       inv[j].isSubTopic => inv[j].pc \notin {"discover", "delay"} /\ inv[j].newTopics = <<>>
  /\ \A j \in 2..Len(inv) : inv[j].isSubTopic /\ inv[j].parent = 1
  /\ inv # <<>> => ~inv[1].isSubTopic

\* a sub-topic invocation appended an Insight and returned
C7_Witness ==
  \E j \in 2..Len(inv) :
    /\ inv[j].pc = "settled"
    /\ inv[j].tid # 0
    /\ inv[j].topic \in InsightTopics

\* C8, as stated: no task is submitted to the queue for a proposed topic that is
\* in the visited set or that is proposed when the set holds MAX_TOPICS topics.
C8_OnlyAdmittedSubmitted ==
  [][(inv # <<>> /\ Len(inv') > Len(inv))
       => Admits(Last(inv').topic, discoveredTopics)]_vars

\* C8, amended: a proposed topic that is in the visited set, or finds it full,
\* when its task starts is dropped then; only admitted topics are researched.
C8_DroppedAtStart ==
  /\ \A n \in 1..Len(admissionLog) :
       ~admissionLog[n].admitted => NotResearched(admissionLog[n].id)
  /\ \A j \in 1..Len(inv) :
       inv[j].pc \in Researching => inv[j].topic \in discoveredTopics /\ inv[j].tid # 0
  /\ Range(searchLog) \subseteq discoveredTopics
  /\ InsightTopics \subseteq discoveredTopics

\* a task that waited in the queue was refused at its start and has settled
C8_Witness ==
  \E m, n \in 1..Len(admissionLog) :
    /\ m < n
    /\ admissionLog[n].id \in admissionLog[m].waiting
    /\ ~admissionLog[n].admitted
    /\ inv[admissionLog[n].id].pc = "settled"

\* C9: an invocation that is refused at the admission check returns at once and
\* leaves the visited set, the Insight list, the logger's task registry and the
\* digest as they were, searches nothing and adds no task to the queue.
C9_RefusedIsNoOp ==
  [][(Len(admissionLog') > Len(admissionLog) /\ ~Last(admissionLog').admitted)
       => /\ discoveredTopics' = discoveredTopics
          /\ researchInsights' = researchInsights
          /\ taskId' = taskId
          /\ currentTasks' = currentTasks
          /\ searchLog' = searchLog
          /\ digest' = digest
          /\ Range(queue') \subseteq Range(queue)
          /\ inv'[Last(admissionLog').id].pc = "returned"
          /\ inv'[Last(admissionLog').id].tid = 0]_vars

\* the same topic was refused twice
C9_Witness ==
  \E m, n \in 1..Len(admissionLog) :
    /\ m < n
    /\ admissionLog[m].topic = admissionLog[n].topic
    /\ ~admissionLog[m].admitted
    /\ ~admissionLog[n].admitted

\* C10: the search step of a sub-topic invocation never throws and appends no
\* Insight, and leaves the other invocations, the queue and the process alone; an
\* invocation whose search failed returns, is settled as resolved and has no
\* Insight.
C10_SearchFailureContained ==
  /\ [](\A j \in 2..Len(inv) :
          SearchFailed(j) => /\ inv[j].pc \in {"returned", "settled"}
                             /\ j \notin rejected
                             /\ inv[j].topic \notin InsightTopics)
  /\ [][\A i \in 2..Len(inv) :
          (inv[i].pc = "search" /\ inv'[i].pc # "search")
          => /\ inv'[i].pc \in {"fetch", "returned"}
             /\ inv[i].tid \notin currentTasks' => inv'[i].pc = "returned"
             /\ researchInsights' = researchInsights
             /\ Len(inv') = Len(inv)
             /\ \A j \in 1..Len(inv) : j # i => inv'[j] = inv[j]
             /\ queue' = queue
             /\ pending' = pending
             /\ rejected' = rejected
             /\ exited' = exited
             /\ discoveredTopics' = discoveredTopics]_vars

\* the search of a sub-topic failed, a later sub-topic appended an Insight and the
\* root aggregated
C10_Witness ==
  /\ digest # <<>>
  /\ \E j, k \in 2..Len(inv) :
       /\ j < k
       /\ SearchFailed(j)
       /\ inv[j].pc = "settled"
       /\ inv[k].topic \in InsightTopics

\* C11: in every run, also when the search of a topic fails, the root waits for
\* the queue, aggregates and produces a digest: the root never finishes without
\* a digest.
C11_RootAlwaysAggregates == (inv # <<>> /\ inv[1].pc = "returned") => digest # <<>>

\* C12: when the ranking, the summarize or the score call of one URL fails, only
\* that URL is skipped: the step that ends the processing of a URL's content
\* leaves the invocation at its next URL or after its loop, never thrown.
C12_FailedUrlSkipped ==
  [][\A i \in 1..Len(inv) :
       (inv[i].pc = "analyze" /\ inv'[i].pc # "analyze")
       => inv'[i].pc \in {"fetch", "discover", "returned", "onIdle"}]_vars

\* C13: every Insight of the shared list has an integer score from 1 to 10.
C13_ScoreInRange ==
  \A n \in 1..Len(researchInsights) : researchInsights[n].score \in 1..10

\* the text has no integer to read: once trimmed it is empty, or what follows
\* its optional sign does not start with a digit
Unparsable(text) ==
  LET s == Trim(text)
      body == IF s # <<>> /\ s[1] \in {"-", "+"} THEN Tail(s) ELSE s
  IN body = <<>> \/ body[1] \notin Digits

\* C14: prioritizeInsight returns 5 whenever the text the scoring call answered
\* does not parse as an integer; it has no other outcome for such a text.
C14_UnparsableGivesDefault ==
  (call.fn = "prioritizeInsight" /\ call.done /\ Unparsable(call.text))
  => call.out = 5

C14_Witness ==
  /\ call.fn = "prioritizeInsight"
  /\ call.done
  /\ Unparsable(call.text)
  /\ Trim(call.text) # <<>>
  /\ \E n \in 1..Len(call.text) : call.text[n] \in Digits
  /\ call.out = 5

\* a call of findSimilarSentences for which embedMany answered one vector for
\* the query and one for each sentence
WellEmbedded ==
  /\ call.fn = "findSimilarSentences"
  /\ call.done
  /\ call.embed.ok
  /\ Len(call.embed.embeddings) = 1 + call.n

\* the distance of sentence i (0-based) to the query in a well embedded call
Distance(i) == 1 - dot(call.embed.embeddings[1], call.embed.embeddings[i + 2])

\* the position of index i in the returned list, 0 when it is not returned
Position(i) ==
  IF \E x \in 1..Len(call.out.value) : call.out.value[x] = i
  THEN CHOOSE x \in 1..Len(call.out.value) : call.out.value[x] = i
  ELSE 0

\* C17: findSimilarSentences returns exactly min(topK, |sentences|) indices, so
\* the index of every sentence when topK > |sentences|.
C17_ReturnsMinTopK ==
  WellEmbedded
  => /\ call.out.ok
     /\ Len(call.out.value) = Min(call.topK, call.n)
     /\ (call.topK > call.n
         => {call.out.value[x] : x \in 1..Len(call.out.value)} = 0..(call.n - 1))

\* C18: for sentences i and j with i closer to the query than j,
\* findSimilarSentences never returns j without i and places i before j;
\* sentences at equal distance come in ascending index.
C18_RankedByDistance ==
  WellEmbedded
  => \A i, j \in 0..(call.n - 1) :
       (Position(j) # 0 /\ (Distance(i) < Distance(j)
                            \/ (Distance(i) = Distance(j) /\ i < j)))
       => (Position(i) # 0 /\ Position(i) < Position(j))

\* C19: when the embedding call fails or answers a number of vectors other
\* than 1 + |sentences|, findSimilarSentences fails instead of returning a
\* ranking.
C19_EmbeddingErrorPropagates ==
  (/\ call.fn = "findSimilarSentences"
   /\ call.done
   /\ (~call.embed.ok \/ Len(call.embed.embeddings) # 1 + call.n))
  => ~call.out.ok

\* the digest dg of the list ins holds one group for each topic of ins, made of
\* the min(3, n) best Insights of that topic, best first
DigestOf(ins, dg) ==
  /\ \A n \in 1..Len(ins) :
       Cardinality({g \in 1..Len(dg) : dg[g].topic = ins[n].topic}) = 1
  /\ \A g \in 1..Len(dg) :
       LET top == dg[g].top
           mine == {n \in 1..Len(ins) : ins[n].topic = dg[g].topic}
           kept == {top[x] : x \in 1..Len(top)}
       IN /\ mine # {}
          /\ Len(top) = Min(3, Cardinality(mine))
          /\ kept \subseteq {ins[n] : n \in mine}
          /\ Cardinality(kept) = Len(top)
          /\ \A x, y \in 1..Len(top) : x < y => top[x].score >= top[y].score
          /\ \A n \in mine : ins[n] \notin kept
               => \A x \in 1..Len(top) : top[x].score >= ins[n].score

\* C20: the digest holds, for each topic with n >= 1 Insights in the list,
\* exactly min(3, n) of that topic's Insights, those of highest score, in
\* descending score order; each such topic has one group, which holds no Insight
\* of another topic.
C20_DigestTopPerTopic ==
  (call.fn = "aggregate" /\ call.done) => DigestOf(call.ins, call.out)

C20_Witness ==
  /\ call.fn = "aggregate"
  /\ call.done
  /\ Len(call.out) = 2
  /\ \E g \in 1..Len(call.out) :
       /\ Len(call.out[g].top) = 3
       /\ Cardinality({n \in 1..Len(call.ins) : call.ins[n].topic = call.out[g].topic}) > 3
       /\ call.out[g].top[1].score > call.out[g].top[3].score
       /\ call.out[g].top[1].url > call.out[g].top[3].url
  /\ DigestOf(call.ins, call.out)

\* researchInsights holds an Insight of this topic and URL
HasInsight(topic, url) ==
  \E n \in 1..Len(researchInsights) :
    researchInsights[n].topic = topic /\ researchInsights[n].url = url

\* C15: as long as no summarize, score or ranking call fails, an invocation
\* appends exactly one Insight for each URL whose fetch gave content, and none
\* for a URL whose fetch gave none; that URL is not fetched again and the
\* invocation goes on with its next URL (or ends its loop after the last).
C15_OneInsightPerFetchedUrl ==
  [][/\ \A i \in 1..Len(inv) :
          /\ (inv[i].pc = "fetch" /\ inv'[i].pc = "analyze")
             => (inv'[i].k = inv[i].k /\ researchInsights' = researchInsights)
          /\ (inv[i].pc = "fetch" /\ inv'[i] # inv[i] /\ inv'[i].pc # "analyze")
             => /\ researchInsights' = researchInsights
                /\ \/ (inv[i].k < inv[i].urls
                       /\ inv'[i].pc = "fetch" /\ inv'[i].k = inv[i].k + 1)
                   \/ (inv[i].k = inv[i].urls
                       /\ inv'[i].pc = (IF inv[i].isSubTopic THEN "returned" ELSE "onIdle"))
          /\ (inv[i].pc = "analyze" /\ inv'[i].pc \notin {"analyze", "threw"})
             => /\ ~HasInsight(inv[i].topic, inv[i].k)
                /\ Len(researchInsights') = Len(researchInsights) + 1
                /\ SubSeq(researchInsights', 1, Len(researchInsights)) = researchInsights
                /\ Last(researchInsights').topic = inv[i].topic
                /\ Last(researchInsights').url = inv[i].k
          /\ (inv[i].pc \in {"discover", "delay"} /\ inv'[i].pc = "fetch")
             => inv'[i].k = inv[i].k + 1
     /\ researchInsights' # researchInsights
        => \E i \in 1..Len(inv) : inv[i].pc = "analyze" /\ inv'[i].pc # "analyze"]_vars

\* an invocation ended its loop with an Insight for its second URL and none for
\* its first, whose fetch gave no content
C15_Witness ==
  \E i \in 1..Len(inv) :
    /\ inv[i].pc \in {"returned", "settled", "paper"}
    /\ inv[i].urls >= 2
    /\ ~HasInsight(inv[i].topic, 1)
    /\ HasInsight(inv[i].topic, 2)

\* the search of the root succeeded and returned no result
RootFoundNothing ==
  /\ inv # <<>>
  /\ inv[1].pc \notin {"queued", "search"}
  /\ ~SearchFailed(1)
  /\ inv[1].urls = 0

\* C16: when the search for the root topic returns no result, the root appends
\* no Insight, its wait for the queue is over at once, and it leaves that wait
\* only with the empty digest built: it does not throw before.
C16_EmptySearchEmptyDigest ==
  RootFoundNothing
  => /\ researchInsights = <<>>
     /\ inv[1].pc = "onIdle" => (queue = <<>> /\ pending = {} /\ digest = <<>>)
     /\ inv[1].pc # "onIdle" => digest = << <<>> >>

C16_Witness ==
  /\ RootFoundNothing
  /\ inv[1].pc = "returned"
  /\ digest = << <<>> >>
  /\ exited = "no"

\* C21: researchInsights only grows by appending at its end: every step of a
\* run leaves the list it found as a prefix of the list it leaves.
C21_InsightsAppendOnly ==
  [][/\ Len(researchInsights') >= Len(researchInsights)
     /\ SubSeq(researchInsights', 1, Len(researchInsights)) = researchInsights]_vars

\* the root aggregated a list of several Insights, got its paper, and the list
\* is still whole
C21_Witness ==
  /\ inv # <<>>
  /\ inv[1].pc = "returned"
  /\ digest # <<>>
  /\ digest[1] # <<>>
  /\ Len(researchInsights) >= 2
  /\ InsightTopics # {RootTopic}

\* the invocations that were admitted and have not finished yet
Active == {j \in 1..Len(inv) : inv[j].pc \in Researching}

\* C25 as stated: the number of invocations active at the same time, the root
\* included, never exceeds the concurrency limit of the queue.
C25_ActiveWithinLimit == Cardinality(Active) <= Concurrency

\* C25, amended: at most as many sub-topic invocations as the concurrency limit
\* are active at the same time; the root, which is called directly and is no
\* task of the queue, comes on top of them.
C25_ActiveWithinLimitPlusRoot ==
  /\ Cardinality(Active \ {1}) <= Concurrency
  /\ Cardinality(Active) <= Concurrency + 1

\* the root and a sub-topic are active together while another task waits
C25_Witness ==
  /\ 1 \in Active
  /\ Cardinality(Active) = Concurrency + 1
  /\ queue # <<>>

\* the topics of the tasks submitted to the queue, in submission order
Submitted == [n \in 1..(Len(inv) - 1) |-> inv[n + 1].topic]

RECURSIVE FirstDistinct(_, _, _)
\* the first `budget` topics of seq that are not in seen and differ from each other
FirstDistinct(seq, seen, budget) ==
  IF seq = <<>> \/ budget = 0 THEN <<>>
  ELSE IF Head(seq) \in seen THEN FirstDistinct(Tail(seq), seen, budget)
       ELSE <<Head(seq)>> \o FirstDistinct(Tail(seq), seen \cup {Head(seq)}, budget - 1)

\* C27: queued tasks start, and pass the admission check, in the order of their
\* submission: the sub-topics admitted so far are the first of the (at most
\* MAX_TOPICS - 1) first distinct topics other than the root that were
\* submitted, and all of them once every submitted task has started.
C27_AdmittedInSubmissionOrder ==
  inv # <<>>
  => LET expected == FirstDistinct(Submitted, {RootTopic}, MAX_TOPICS - 1)
     IN /\ \A j, k \in 2..Len(inv) :
             (j < k /\ inv[k].pc # "queued") => inv[j].pc # "queued"
        /\ \A n, m \in 1..Len(admissionLog) :
             n < m => admissionLog[n].id < admissionLog[m].id
        /\ Len(searchLog) - 1 <= Len(expected)
        /\ Tail(searchLog) = SubSeq(expected, 1, Len(searchLog) - 1)
        /\ (\A j \in 2..Len(inv) : inv[j].pc # "queued")
           => discoveredTopics = {RootTopic} \cup Range(expected)

\* three distinct topics were submitted, two of them waited in the queue, and
\* the first two were admitted
C27_Witness ==
  /\ Len(inv) = 4
  /\ Cardinality(Range(Submitted) \ {RootTopic}) = 3
  /\ \E n \in 1..Len(admissionLog) : Cardinality(admissionLog[n].waiting) = 1
  /\ \A j \in 2..Len(inv) : inv[j].pc # "queued"
  /\ discoveredTopics = {RootTopic, inv[2].topic, inv[3].topic}
  /\ NotResearched(4)

\* C28: the visited set never shrinks, and the topic of every invocation that
\* was admitted is in it for the rest of the run, also after its search failed
\* or its processing threw.
C28_VisitedNeverShrinks ==
  [][/\ discoveredTopics \subseteq discoveredTopics'
     /\ \A j \in 1..Len(inv') : inv'[j].tid # 0 => inv'[j].topic \in discoveredTopics']_vars

\* a sub-topic whose search failed, and one whose processing threw, still fill
\* the visited set, and a later new topic was refused for lack of room
C28_Witness ==
  /\ \E j \in 2..Len(inv) : SearchFailed(j) /\ inv[j].topic \in discoveredTopics
  /\ \E j \in 2..Len(inv) :
       inv[j].pc \in {"threw", "rejected"} /\ inv[j].topic \in discoveredTopics
  /\ \E n \in 1..Len(admissionLog) :
       /\ ~admissionLog[n].admitted
       /\ ~admissionLog[n].present
       /\ admissionLog[n].size = MAX_TOPICS

\* the invocations that passed the admission check and went on to their search
Searched == {j \in 1..Len(inv) : inv[j].tid # 0}

\* C29: in one run no topic is searched twice, however often it is proposed or
\* submitted, and at most MAX_TOPICS searches are issued, the root's included.
C29_SearchedAtMostOnce ==
  /\ \A j, k \in Searched : inv[j].topic = inv[k].topic => j = k
  /\ Cardinality(Searched) <= MAX_TOPICS
  /\ Len(searchLog) = Cardinality(Searched)
  /\ \A j \in 1..Len(inv) : inv[j].pc \in Researching => j \in Searched

\* a topic was submitted twice and searched once, and MAX_TOPICS searches were
\* issued in the run
C29_Witness ==
  /\ Cardinality(Searched) = MAX_TOPICS
  /\ \E j, k \in 2..Len(inv) :
       /\ j < k
       /\ inv[j].topic = inv[k].topic
       /\ j \in Searched
       /\ NotResearched(k)

\* every submitted task has settled, the queue is idle and the root has finished
Drained ==
  /\ inv # <<>>
  /\ inv[1].pc \in {"returned", "threw"}
  /\ Unsettled = {}
  /\ queue = <<>>
  /\ pending = {}

\* C30: when every external call eventually returns or fails, every submitted
\* task eventually settles, the queue eventually becomes idle and the root
\* eventually finishes.
C30_EventuallyDrained == <>Drained

RECURSIVE Concat(_)
\* the concatenation of the sequences of a list
Concat(pieces) == IF pieces = <<>> THEN <<>> ELSE Head(pieces) \o Concat(Tail(pieces))

\* C26: chunk(arr, chunkSize) throws RangeError when chunkSize is NaN or below 1;
\* otherwise it returns pieces that are non-empty, of length at most chunkSize,
\* and whose concatenation in order is arr (no piece for an empty arr).
C26_ChunkPartitions ==
  (call.fn = "chunk" /\ call.done)
  => IF call.chunkSize.nan \/ call.chunkSize.halves < 2
     THEN ~call.out.ok
     ELSE /\ call.out.ok
          /\ \A x \in 1..Len(call.out.value) :
               /\ call.out.value[x] # <<>>
               /\ 2 * Len(call.out.value[x]) <= call.chunkSize.halves
          /\ Concat(call.out.value) = call.arr
          /\ call.arr = <<>> => call.out.value = <<>>

\* s is the beginning of t
IsPrefix(s, t) == Len(s) <= Len(t) /\ SubSeq(t, 1, Len(s)) = s

\* s is the end of t
IsSuffix(s, t) == Len(s) <= Len(t) /\ SubSeq(t, Len(t) - Len(s) + 1, Len(t)) = s

\* what the call of chunkText returns when maxChunks is too large to cut
Uncut == chunkText(call.text, [call.opts EXCEPT !.maxChunks = 2 * Len(call.text) + 2])

\* C22: the chunk list of a page never has more entries than the configured
\* maximum (maxChunks for chunkText, MAX_N_CHUNKS for parseWeb), and a list that
\* is cut keeps its earliest chunks in their order.
C22_ChunkCountCapped ==
  /\ (call.fn = "chunkText" /\ call.done)
     => /\ Len(call.out) <= call.opts.maxChunks
        /\ IsPrefix(call.out, Uncut)
        /\ Len(call.out) < Len(Uncut) => Len(call.out) = call.opts.maxChunks
  /\ (call.fn = "parseWeb" /\ call.done)
     => LET all == parseWebChunks(call.text, call.chunkCharLength, Len(call.text) + 1)
        IN /\ Len(call.out) <= call.maxNChunks
           /\ IsPrefix(call.out, all)
           /\ Len(call.out) < Len(all) => Len(call.out) = call.maxNChunks

\* a call of chunkText made three different chunks and returned the first two
C22_Witness ==
  /\ call.fn = "chunkText"
  /\ call.done
  /\ Len(Uncut) = 3
  /\ Cardinality({Uncut[x] : x \in 1..3}) = 3
  /\ call.opts.maxChunks = 2
  /\ call.out = SubSeq(Uncut, 1, 2)

\* C23: every chunk chunkText returns is non-empty and at most chunkSize
\* characters long.
C23_ChunkSizeBounded ==
  (call.fn = "chunkText" /\ call.done)
  => \A x \in 1..Len(call.out) :
       call.out[x] # <<>> /\ Len(call.out[x]) <= call.opts.chunkSize

\* C24: in chunkText the text kept from a chunk for the start of the next is an
\* end of that chunk of at most overlap characters, and is empty when overlap
\* is 0.
C24_OverlapBounded ==
  (call.fn = "chunkText" /\ call.done)
  => \A x \in 1..Len(call.passes.carried) :
       /\ IsSuffix(Trim(call.passes.carried[x]), call.passes.chunks[x])
       /\ Len(call.passes.carried[x]) <= call.opts.overlap
       /\ call.opts.overlap = 0 => call.passes.carried[x] = <<>>

====
